---- MODULE Spec2Model ----
(***************************************************************************)
(* A model of git-diff: the unified-diff parser (git_data.parse_diff) and  *)
(* the HTTP request handler with its process-wide snapshot                 *)
(* (server.GitDiffHandler).                                                *)
(*                                                                         *)
(* Python strings are TLA+ strings; a Python None is the empty tuple <<>>  *)
(* and a present optional value v is the one-element tuple <<v>>.  Python  *)
(* dict objects that are shared by reference (the hunks) live in `heap`    *)
(* and are referred to by their index in it.                               *)
(***************************************************************************)
EXTENDS Integers, Sequences, FiniteSets, TLC

(***************************************************************************)
(* Bounds of the model.                                                    *)
(***************************************************************************)
MaxLines == 4
MaxHeaderLines == 3

(***************************************************************************)
(* Python string primitives.                                               *)
(***************************************************************************)
Ch(s, k) == SubSeq(s, k, k)

StartsWith(s, p) == Len(s) >= Len(p) /\ SubSeq(s, 1, Len(p)) = p

DropPrefix(s, n) == SubSeq(s, n + 1, Len(s))

IsSpace(c) == c \in {" ", "\t", "\r", "\n"}

Digits == <<"0", "1", "2", "3", "4", "5", "6", "7", "8", "9">>

IsDigit(c) == \E d \in 1..10 : Digits[d] = c

DigitVal(c) == (CHOOSE d \in 1..10 : Digits[d] = c) - 1

RECURSIVE LStrip(_)
LStrip(s) == IF Len(s) > 0 /\ IsSpace(Ch(s, 1)) THEN LStrip(DropPrefix(s, 1)) ELSE s

RECURSIVE RStrip(_)
RStrip(s) ==
    IF Len(s) > 0 /\ IsSpace(Ch(s, Len(s))) THEN RStrip(SubSeq(s, 1, Len(s) - 1)) ELSE s

Strip(s) == LStrip(RStrip(s))

\* int(s) for a non-empty string of decimal digits
RECURSIVE ParseInt(_)
ParseInt(s) ==
    IF Len(s) = 0 THEN 0
    ELSE 10 * ParseInt(SubSeq(s, 1, Len(s) - 1)) + DigitVal(Ch(s, Len(s)))

\* the first position at or after k of s that does not hold a digit
RECURSIVE DigitsEnd(_, _)
DigitsEnd(s, k) == IF k <= Len(s) /\ IsDigit(Ch(s, k)) THEN DigitsEnd(s, k + 1) ELSE k

\* the start of the last whitespace-separated token of the right-stripped r
RECURSIVE TokenStart(_, _)
TokenStart(r, k) == IF k > 1 /\ ~IsSpace(Ch(r, k - 1)) THEN TokenStart(r, k - 1) ELSE k

\* line.split(): <<>> when it has no token, else <<its last token>>
SplitLast(s) ==
    LET r == RStrip(s)
    IN  IF Len(r) = 0 THEN <<>> ELSE <<SubSeq(r, TokenStart(r, Len(r)), Len(r))>>

SetMin(S) == CHOOSE x \in S : \A y \in S : x <= y

SetMax(S) == CHOOSE x \in S : \A y \in S : y <= x

\* text.split("\n")
RECURSIVE SplitLines(_)
SplitLines(s) ==
    LET nl == {k \in 1..Len(s) : Ch(s, k) = "\n"}
    IN  IF nl = {} THEN <<s>>
        ELSE <<SubSeq(s, 1, SetMin(nl) - 1)>> \o SplitLines(DropPrefix(s, SetMin(nl)))

RECURSIVE JoinLines(_)
JoinLines(ls) ==
    IF Len(ls) = 0 THEN ""
    ELSE IF Len(ls) = 1 THEN ls[1]
    ELSE ls[1] \o "\n" \o JoinLines(Tail(ls))

RECURSIVE SumSeq(_)
SumSeq(q) == IF Len(q) = 0 THEN 0 ELSE Head(q) + SumSeq(Tail(q))

(***************************************************************************)
(* The three regular expressions of parse_diff, as the matches re computes.*)
(***************************************************************************)
\* does s hold p at position k
At(s, k, p) == k >= 1 /\ k + Len(p) - 1 <= Len(s) /\ SubSeq(s, k, k + Len(p) - 1) = p

\* re.match(r"diff --git a/(.+) b/(.+)", line): both groups greedy, so the
\* separator " b/" is the last one that leaves a character on each side
DiffGitMatch(line) ==
    LET ks == {k \in 15..(Len(line) - 3) : At(line, k, " b/")}
    IN  IF StartsWith(line, "diff --git a/") /\ ks # {}
        THEN <<[g1 |-> SubSeq(line, 14, SetMax(ks) - 1),
                g2 |-> SubSeq(line, SetMax(ks) + 3, Len(line))]>>
        ELSE <<>>

\* re.match(r"@@ -(\d+)(?:,(\d+))? \+(\d+)(?:,(\d+))? @@(.*)", line); an
\* optional group that did not take part is <<>>
HunkMatch(line) ==
    LET e1 == DigitsEnd(line, 5)
        has2 == At(line, e1, ",") /\ DigitsEnd(line, e1 + 1) > e1 + 1
        a2 == IF has2 THEN DigitsEnd(line, e1 + 1) ELSE e1
        p3 == a2 + 2
        e3 == DigitsEnd(line, p3)
        has4 == At(line, e3, ",") /\ DigitsEnd(line, e3 + 1) > e3 + 1
        a4 == IF has4 THEN DigitsEnd(line, e3 + 1) ELSE e3
    IN  IF /\ StartsWith(line, "@@ -")
           /\ e1 > 5
           /\ At(line, a2, " +")
           /\ e3 > p3
           /\ At(line, a4, " @@")
        THEN <<[g1 |-> SubSeq(line, 5, e1 - 1),
                g2 |-> IF has2 THEN <<SubSeq(line, e1 + 1, a2 - 1)>> ELSE <<>>,
                g3 |-> SubSeq(line, p3, e3 - 1),
                g4 |-> IF has4 THEN <<SubSeq(line, e3 + 1, a4 - 1)>> ELSE <<>>,
                g5 |-> SubSeq(line, a4 + 3, Len(line))]>>
        ELSE <<>>

\* re.search(r"(\d+)%", line): the leftmost digit whose run of digits ends at "%"
SimilarityMatch(line) ==
    LET ps == {p \in 1..Len(line) :
                 IsDigit(Ch(line, p)) /\ At(line, DigitsEnd(line, p), "%")}
    IN  IF ps # {}
        THEN <<SubSeq(line, SetMin(ps), DigitsEnd(line, SetMin(ps)) - 1)>>
        ELSE <<>>

(***************************************************************************)
(* State.                                                                  *)
(*   parse_diff: lines, i, files, current_file, current_hunks,             *)
(*   current_hunk, in_hunk are its locals; heap holds the hunk dicts, which*)
(*   current_hunk and the hunks lists share by reference; result is the    *)
(*   returned DiffResult; pc is the position of the call.                  *)
(*   origin records, for each hunk of heap, the input line that opened it  *)
(*   and the input line each of its Lines was read from (history only).    *)
(***************************************************************************)
VARIABLES lines, i, files, current_file, current_hunks, current_hunk, in_hunk,
          heap, origin, result, pc

pvars == <<lines, i, files, current_file, current_hunks, current_hunk, in_hunk,
           heap, origin, result, pc>>

(***************************************************************************)
(*   The server: repo and git_present are the environment (the repository  *)
(*   and whether the git executable can be found); initial_data is         *)
(*   GitDiffHandler.initial_data; handler is the request being served      *)
(*   (<<>> when the serve_forever loop is waiting) and spc its position;   *)
(*   data is the part of the snapshot collect_all_data has built so far;   *)
(*   response is the response sent for the last finished request.          *)
(*   run counts the collect_all_data calls and writes tells whether a git  *)
(*   command run by the server has changed the repository (history only).  *)
(*   calls lists the argument lists run_git was given for the request      *)
(*   being served, or last served (history only); backlog holds the        *)
(*   requests that have reached the listening socket and have not been     *)
(*   accepted yet.                                                         *)
(***************************************************************************)
VARIABLES repo, git_present, initial_data, handler, spc, data, response, run, writes,
          calls, backlog

svars == <<repo, git_present, initial_data, handler, spc, data, response, run, writes,
           calls, backlog>>

(***************************************************************************)
(*   run_git: check is its parameter; proc is what the call meets (whether *)
(*   the executable and the working directory are there, whether git       *)
(*   outlives the timeout, its exit status and what it writes to stdout);  *)
(*   completed is what subprocess.run yields (the CompletedProcess or the  *)
(*   exception), returned what run_git gives its caller, rpc its position. *)
(***************************************************************************)
VARIABLES check, proc, completed, returned, rpc

rvars == <<check, proc, completed, returned, rpc>>

(***************************************************************************)
(*   _relative_time: ts is its argument, now the wall clock it reads       *)
(*   (counted in half seconds, so that the clock can stand between two     *)
(*   whole seconds), relative what it returned (<<>> before the call).     *)
(***************************************************************************)
VARIABLES ts, now, relative

tvars == <<ts, now, relative>>

(***************************************************************************)
(*   get_commit_history: raw is the text git log gives for the repository, *)
(*   which does not change; history holds, for each call made, the clock   *)
(*   at the call and the list it returned (history only).                  *)
(***************************************************************************)
VARIABLES raw, history

hvars == <<raw, history>>

(***************************************************************************)
(*   get_file_blame: blame_raw is the lines of the text git blame gave,    *)
(*   blame_i the number of lines read; current_hash (<<>> for None), meta  *)
(*   and blame_lines are its locals current_hash, meta and lines; a        *)
(*   blame_lines entry refers to its meta dict by the hash that keys it;   *)
(*   bpc is the position of the call.                                      *)
(***************************************************************************)
VARIABLES blame_raw, blame_i, current_hash, meta, blame_lines, bpc

bvars == <<blame_raw, blame_i, current_hash, meta, blame_lines, bpc>>

\* the state of the query layer
qvars == <<rvars, tvars, hvars, bvars>>

(***************************************************************************)
(*   cli.main: repo_path is the path it is given, repo_root what           *)
(*   get_repo_root resolves it to (<<>> before), mpc its position, stderr  *)
(*   what it has printed as an error and exit_status the status it has     *)
(*   exited with (<<>> while it runs).                                     *)
(***************************************************************************)
VARIABLES repo_path, repo_root, mpc, stderr, exit_status

mvars == <<repo_path, repo_root, mpc, stderr, exit_status>>

vars == <<pvars, svars, qvars, mvars>>

(***************************************************************************)
(* The inputs of parse_diff the model explores: every text of at most      *)
(* MaxLines lines over BodyLines, every text of at most MaxHeaderLines     *)
(* lines over HeaderLines, and every text of at most MaxLines lines over   *)
(* MarkerLines (a one-line change whose old or new text begins with "--"   *)
(* or "++").                                                               *)
(***************************************************************************)
BodyLines ==
    { "diff --git a/x b/x", "@@ -1,2 +1 @@ f", "@@ bad", "+a", "-b", " c",
      "\\ No newline at end of file", "+++x" }

HeaderLines ==
    { "diff --git a/a.txt b/b.txt", "diff --git x", "new file mode 100644",
      "deleted file mode 100644", "old mode 100644", "new mode 100755",
      "Binary files a/x and b/x differ", "similarity index 90%",
      "similarity index", "rename from a.txt", "rename to b.txt",
      "copy from a.txt", "@@ -3 +4,0 @@", "-b", "" }

MarkerLines == { "diff --git a/x b/x", "@@ -1 +1 @@", "---y", "+++x", "-b", "+a" }

SeqsUpTo(S, n) == UNION {[1..m -> S] : m \in 0..n}

\* the texts given to parse_diff
Inputs ==
    {JoinLines(ls) : ls \in SeqsUpTo(BodyLines, MaxLines) \cup
                           SeqsUpTo(HeaderLines, MaxHeaderLines) \cup
                           SeqsUpTo(MarkerLines, MaxLines)}

(***************************************************************************)
(* parse_diff                                                              *)
(***************************************************************************)
\* the dict a file-pair header creates
NewFile(old_path, new_path) ==
    [old_path |-> old_path, new_path |-> new_path, status |-> "modified",
     hunks |-> <<>>, additions |-> 0, deletions |-> 0, is_binary |-> FALSE,
     is_new |-> FALSE, is_deleted |-> FALSE, old_mode |-> <<>>,
     new_mode |-> <<>>, similarity |-> <<>>]

\* DiffGitPaths reading the groups of a match that may be None
DiffGitPathsUnguarded(line) ==
    LET m == DiffGitMatch(line)
    IN  IF m # <<>> THEN <<m[1].g1, m[1].g2>> ELSE <<>>

\* the paths of a file-pair header: <<old, new>>, or <<>> if computing them raises
DiffGitPaths(line) ==
    LET m == DiffGitMatch(line)
    IN  <<IF m # <<>> THEN m[1].g1 ELSE "", IF m # <<>> THEN m[1].g2 ELSE "">>

\* the dict a hunk header creates from its match m
NewHunk(m) ==
    [old_start |-> ParseInt(m.g1),
     old_count |-> IF m.g2 # <<>> THEN ParseInt(m.g2[1]) ELSE 1,
     new_start |-> ParseInt(m.g3),
     new_count |-> IF m.g4 # <<>> THEN ParseInt(m.g4[1]) ELSE 1,
     context |-> Strip(m.g5),
     lines |-> <<>>, additions |-> 0, deletions |-> 0]

HunkAdditions(f) == [k \in 1..Len(f.hunks) |-> heap[f.hunks[k]].additions]

HunkDeletions(f) == [k \in 1..Len(f.hunks) |-> heap[f.hunks[k]].deletions]

\* FinalizeFile with the deletions left as the header line set them
FinalizeFileAdditionsOnly(f) == [f EXCEPT !.additions = SumSeq(HunkAdditions(f))]

FinalizeFile(f) ==
    [f EXCEPT !.additions = SumSeq(HunkAdditions(f)),
              !.deletions = SumSeq(HunkDeletions(f))]

\* the branch of the if/elif chain that a line takes
Branch(line) ==
    IF StartsWith(line, "diff --git ") THEN "diff"
    ELSE IF StartsWith(line, "new file mode") /\ current_file # <<>> THEN "new_file_mode"
    ELSE IF StartsWith(line, "deleted file mode") /\ current_file # <<>> THEN "deleted_file_mode"
    ELSE IF StartsWith(line, "old mode") /\ current_file # <<>> THEN "old_mode"
    ELSE IF StartsWith(line, "new mode") /\ current_file # <<>> THEN "new_mode"
    ELSE IF StartsWith(line, "Binary files") /\ current_file # <<>> THEN "binary"
    ELSE IF StartsWith(line, "similarity index") /\ current_file # <<>> THEN "similarity"
    ELSE IF StartsWith(line, "rename from ") /\ current_file # <<>> THEN "rename_from"
    ELSE IF StartsWith(line, "rename to ") /\ current_file # <<>> THEN "rename_to"
    ELSE IF StartsWith(line, "copy from ") /\ current_file # <<>> THEN "copy_from"
    ELSE IF StartsWith(line, "@@") /\ current_file # <<>> THEN "hunk_header"
    ELSE IF in_hunk /\ current_hunk # 0 THEN "body"
    ELSE "none"

\* the kind of Line a body line becomes, <<>> if it is passed over
BodyType(line) ==
    IF StartsWith(line, "---") \/ StartsWith(line, "+++") THEN <<>>
    ELSE IF StartsWith(line, "+") THEN <<"add">>
    ELSE IF StartsWith(line, "-") THEN <<"del">>
    ELSE IF StartsWith(line, " ") THEN <<"ctx">>
    ELSE IF StartsWith(line, "\\") THEN <<"noeol">>
    ELSE <<>>

\* ClosedHunks without the append of the open hunk
ClosedHunksDropsOpen == current_hunks

\* the hunks list of the file being closed: the open hunk is appended first
ClosedHunks == IF current_hunk # 0 THEN Append(current_hunks, current_hunk) ELSE current_hunks

\* the loop is at line i (0-based) and that line takes branch b
AtBranch(b) == pc = "scan" /\ i < Len(lines) /\ Branch(lines[i + 1]) = b

\* the loop body changes only the file being built
OnlyFile(f) ==
    /\ current_file' = <<f>>
    /\ i' = i + 1
    /\ UNCHANGED <<lines, files, current_hunks, current_hunk, in_hunk, heap, origin,
                   result, pc>>

Raise ==
    /\ pc' = "raised"
    /\ UNCHANGED <<lines, i, files, current_file, current_hunks, current_hunk, in_hunk,
                   heap, origin, result>>

\* "diff --git ": close the file being built, start the next one
DiffGit ==
    /\ AtBranch("diff")
    /\ UNCHANGED <<svars, qvars, mvars>>
    /\ LET paths == DiffGitPaths(lines[i + 1])
       IN  IF paths = <<>> THEN Raise
           ELSE /\ files' = IF current_file # <<>>
                            THEN Append(files,
                                        FinalizeFile([current_file[1] EXCEPT !.hunks = ClosedHunks]))
                            ELSE files
                /\ current_file' = <<NewFile(paths[1], paths[2])>>
                /\ current_hunks' = <<>>
                /\ current_hunk' = 0
                /\ in_hunk' = FALSE
                /\ i' = i + 1
                /\ UNCHANGED <<lines, heap, origin, result, pc>>

NewFileMode ==
    /\ AtBranch("new_file_mode")
    /\ UNCHANGED <<svars, qvars, mvars>>
    /\ LET last == SplitLast(lines[i + 1])
       IN  IF last = <<>> THEN Raise
           ELSE OnlyFile([current_file[1] EXCEPT !.is_new = TRUE, !.status = "added",
                                                 !.new_mode = last])

DeletedFileMode ==
    /\ AtBranch("deleted_file_mode")
    /\ UNCHANGED <<svars, qvars, mvars>>
    /\ OnlyFile([current_file[1] EXCEPT !.is_deleted = TRUE, !.status = "deleted"])

OldMode ==
    /\ AtBranch("old_mode")
    /\ UNCHANGED <<svars, qvars, mvars>>
    /\ LET last == SplitLast(lines[i + 1])
       IN  IF last = <<>> THEN Raise
           ELSE OnlyFile([current_file[1] EXCEPT !.old_mode = last])

NewMode ==
    /\ AtBranch("new_mode")
    /\ UNCHANGED <<svars, qvars, mvars>>
    /\ LET last == SplitLast(lines[i + 1])
       IN  IF last = <<>> THEN Raise
           ELSE OnlyFile([current_file[1] EXCEPT !.new_mode = last])

BinaryFiles ==
    /\ AtBranch("binary")
    /\ UNCHANGED <<svars, qvars, mvars>>
    /\ OnlyFile([current_file[1] EXCEPT !.is_binary = TRUE])

SimilarityIndex ==
    /\ AtBranch("similarity")
    /\ UNCHANGED <<svars, qvars, mvars>>
    /\ LET m == SimilarityMatch(lines[i + 1])
       IN  OnlyFile(IF m # <<>>
                    THEN [current_file[1] EXCEPT !.similarity = <<ParseInt(m[1])>>]
                    ELSE current_file[1])

RenameFrom ==
    /\ AtBranch("rename_from")
    /\ UNCHANGED <<svars, qvars, mvars>>
    /\ OnlyFile([current_file[1] EXCEPT !.old_path = DropPrefix(lines[i + 1], Len("rename from ")),
                                       !.status = "renamed"])

RenameTo ==
    /\ AtBranch("rename_to")
    /\ UNCHANGED <<svars, qvars, mvars>>
    /\ OnlyFile([current_file[1] EXCEPT !.new_path = DropPrefix(lines[i + 1], Len("rename to ")),
                                       !.status = "renamed"])

CopyFrom ==
    /\ AtBranch("copy_from")
    /\ UNCHANGED <<svars, qvars, mvars>>
    /\ OnlyFile([current_file[1] EXCEPT !.status = "copied"])

\* the hunk that is current after a line starting with "@@": a new dict when
\* the header matches, else whatever was current
HunkAfterHeader(m) == IF m # <<>> THEN Len(heap) + 1 ELSE current_hunk

\* "@@": append the open hunk to the file's list, open the next one if the
\* header matches
HunkHeader ==
    /\ AtBranch("hunk_header")
    /\ UNCHANGED <<svars, qvars, mvars>>
    /\ LET m == HunkMatch(lines[i + 1])
       IN  /\ current_hunks' = ClosedHunks
           /\ heap' = IF m # <<>> THEN Append(heap, NewHunk(m[1])) ELSE heap
           /\ origin' = IF m # <<>> THEN Append(origin, [hdr |-> i + 1, body |-> <<>>])
                        ELSE origin
           /\ current_hunk' = HunkAfterHeader(m)
           /\ in_hunk' = TRUE
           /\ i' = i + 1
           /\ UNCHANGED <<lines, files, current_file, result, pc>>

\* a line read while a hunk is open
BodyLine ==
    /\ AtBranch("body")
    /\ UNCHANGED <<svars, qvars, mvars>>
    /\ LET line == lines[i + 1]
           t == BodyType(line)
           h == heap[current_hunk]
       IN  /\ heap' = IF t = <<>> THEN heap
                      ELSE [heap EXCEPT ![current_hunk] =
                              [h EXCEPT !.lines = Append(h.lines, [type |-> t[1],
                                                                   content |-> DropPrefix(line, 1)]),
                                        !.additions = IF t[1] = "add" THEN h.additions + 1
                                                      ELSE h.additions,
                                        !.deletions = IF t[1] = "del" THEN h.deletions + 1
                                                      ELSE h.deletions]]
           /\ origin' = IF t = <<>> THEN origin
                        ELSE [origin EXCEPT ![current_hunk].body = Append(@, i + 1)]
           /\ i' = i + 1
           /\ UNCHANGED <<lines, files, current_file, current_hunks, current_hunk, in_hunk,
                          result, pc>>

\* a line no branch takes
OtherLine ==
    /\ AtBranch("none")
    /\ UNCHANGED <<svars, qvars, mvars>>
    /\ i' = i + 1
    /\ UNCHANGED <<lines, files, current_file, current_hunks, current_hunk, in_hunk,
                   heap, origin, result, pc>>

\* end of input: close the open file, compute the totals, return
Finish ==
    /\ pc = "scan"
    /\ UNCHANGED <<svars, qvars, mvars>>
    /\ i >= Len(lines)
    /\ files' = IF current_file # <<>>
                THEN Append(files, FinalizeFile([current_file[1] EXCEPT !.hunks = ClosedHunks]))
                ELSE files
    /\ current_hunks' = IF current_file # <<>> THEN ClosedHunks ELSE current_hunks
    /\ result' = <<[files |-> files',
                    total_files |-> Len(files'),
                    total_additions |-> SumSeq([k \in 1..Len(files') |-> files'[k].additions]),
                    total_deletions |-> SumSeq([k \in 1..Len(files') |-> files'[k].deletions])]>>
    /\ pc' = "done"
    /\ UNCHANGED <<lines, i, current_file, current_hunk, in_hunk, heap, origin>>

NextParse ==
    \/ DiffGit
    \/ NewFileMode
    \/ DeletedFileMode
    \/ OldMode
    \/ NewMode
    \/ BinaryFiles
    \/ SimilarityIndex
    \/ RenameFrom
    \/ RenameTo
    \/ CopyFrom
    \/ HunkHeader
    \/ BodyLine
    \/ OtherLine
    \/ Finish

(***************************************************************************)
(* The environment: the repository and the git executable.                 *)
(***************************************************************************)
MaxRev == 1
MaxRuns == 2
MaxBacklog == 1

\* cmd.split(): the whitespace-separated tokens of s
RECURSIVE SplitTokens(_, _)
SplitTokens(s, acc) ==
    IF Len(s) = 0 THEN (IF acc = "" THEN <<>> ELSE <<acc>>)
    ELSE IF IsSpace(Ch(s, 1))
         THEN (IF acc = "" THEN <<>> ELSE <<acc>>) \o SplitTokens(DropPrefix(s, 1), "")
         ELSE SplitTokens(DropPrefix(s, 1), acc \o Ch(s, 1))

\* what running `git <args>` does to the repository r: `git tag <name>`
\* creates the tag <name>; `git push` updates the remote; every other
\* command the model runs only reads
GitEffect(args, r) ==
    IF Len(args) = 2 /\ args[1] = "tag" /\ ~StartsWith(args[2], "-")
    THEN [r EXCEPT !.tags = @ \cup {args[2]}]
    ELSE IF Len(args) >= 1 /\ args[1] = "push" THEN [r EXCEPT !.pushed = TRUE]
    ELSE r

RECURSIVE GitEffects(_, _)
GitEffects(cmds, r) ==
    IF Len(cmds) = 0 THEN r ELSE GitEffects(Tail(cmds), GitEffect(Head(cmds), r))

\* the repository changes outside the server (a commit, an edit)
RepoChange ==
    /\ repo.rev < MaxRev
    /\ repo' = [repo EXCEPT !.rev = @ + 1]
    /\ UNCHANGED <<git_present, initial_data, handler, spc, data, response, run, writes>>
    /\ UNCHANGED <<calls, backlog>>
    /\ UNCHANGED <<pvars, qvars, mvars>>

\* the git executable disappears from, or comes back to, the PATH
ToolChange ==
    /\ git_present' = ~git_present
    /\ UNCHANGED <<repo, initial_data, handler, spc, data, response, run, writes>>
    /\ UNCHANGED <<calls, backlog>>
    /\ UNCHANGED <<pvars, qvars, mvars>>

(***************************************************************************)
(* collect_all_data: ten sub-collections, each a reading of the repository,*)
(* collected one after the other into a local dict.                        *)
(***************************************************************************)
CollectKeys ==
    <<"repo", "commits", "status", "staged_diff", "unstaged_diff", "file_tree",
      "stashes", "commit_stats", "lang_stats", "all_refs">>

\* every sub-collection but the language statistics runs git, and run_git
\* raises when the executable is not found
StepUsesGit(k) == CollectKeys[k] # "lang_stats"

\* the first git command a sub-collection runs (format strings shortened)
StepCmd(k) ==
    CASE CollectKeys[k] = "repo" -> <<"remote", "-v">>
      [] CollectKeys[k] = "commits" -> <<"log", "--format=%H|..", "-500", "HEAD">>
      [] CollectKeys[k] = "status" -> <<"status", "--porcelain=v1", "-u">>
      [] CollectKeys[k] = "staged_diff" -> <<"diff", "--cached", "--stat">>
      [] CollectKeys[k] = "unstaged_diff" -> <<"diff", "--stat">>
      [] CollectKeys[k] = "file_tree" -> <<"ls-tree", "-r", "--long", "HEAD">>
      [] CollectKeys[k] = "stashes" -> <<"stash", "list", "--format=%gd|..">>
      [] CollectKeys[k] = "commit_stats" ->
           <<"log", "--format=%ad", "--date=short", "--since=90 days ago", "HEAD">>
      [] CollectKeys[k] = "all_refs" -> <<"for-each-ref", "--format=..", "refs/">>
      [] OTHER -> <<>>

\* one sub-collection, as made by collect run n from repository r
Collected(k, n, r) == [key |-> CollectKeys[k], run |-> n, seen |-> r]

(***************************************************************************)
(* GitDiffHandler: the requests and their routes.  A request is its path   *)
(* and the values p() yields for the parameters its route reads ("" when   *)
(* the parameter is absent): a is hash, base, path or cmd, b is compare.   *)
(***************************************************************************)
Req(path, a, b) == [path |-> path, a |-> a, b |-> b]

GitCmdParams == {"", " ", " log -1", "tag v9", "push origin", "gc log"}

Requests ==
    {Req("/", "", ""), Req("/api/data", "", ""), Req("/api/commits", "", ""),
     Req("/api/staged", "", ""), Req("/api/unstaged", "", ""), Req("/api/stash", "", ""),
     Req("/api/activity", "", ""), Req("/api/langs", "", ""), Req("/api/refresh", "", ""),
     Req("/nope", "", "")}
        \cup {Req(path, a, "") : path \in {"/api/commit", "/api/file", "/api/file-log",
                                          "/api/blame"},
                                a \in {"", "abc"}}
        \cup {Req("/api/range-diff", a, b) : a \in {"", "main"}, b \in {"", "dev"}}
        \cup {Req("/api/git", c, "") : c \in GitCmdParams}

QueryPaths ==
    {"/api/commit", "/api/commits", "/api/range-diff", "/api/staged", "/api/unstaged",
     "/api/stash", "/api/file", "/api/file-log", "/api/blame", "/api/activity",
     "/api/langs"}

\* the route answers 400 because a required parameter is missing
MissingParam(r) ==
    \/ r.path \in {"/api/commit", "/api/file", "/api/file-log", "/api/blame"} /\ r.a = ""
    \/ r.path = "/api/range-diff" /\ (r.a = "" \/ r.b = "")

\* the git commands a query route runs, in order (format strings shortened)
QueryCmds(r) ==
    CASE r.path = "/api/commit" ->
           << <<"show", "--stat", "--format=", r.a>>, <<"show", "-U3", "--format=", r.a>>,
              <<"show", "-s", "--format=%H%n..", r.a>> >>
      [] r.path = "/api/commits" -> << <<"log", "--format=%H|..", "-100", "HEAD">> >>
      [] r.path = "/api/range-diff" ->
           << <<"diff", "--stat", r.a \o "..." \o r.b>>, <<"diff", "-U3", r.a \o "..." \o r.b>>,
              <<"log", "--format=%H|%h|%s|%an|%ar", r.a \o ".." \o r.b>> >>
      [] r.path = "/api/staged" ->
           << <<"diff", "--cached", "--stat">>, <<"diff", "-U3", "--cached">> >>
      [] r.path = "/api/unstaged" -> << <<"diff", "--stat">>, <<"diff", "-U3">> >>
      [] r.path = "/api/stash" ->
           << <<"stash", "show", "-p", "-U3", "stash@{0}">>,
              <<"stash", "show", "--stat", "stash@{0}">> >>
      [] r.path = "/api/file" -> << <<"show", "HEAD:" \o r.a>> >>
      [] r.path = "/api/file-log" ->
           << <<"log", "--format=%H|..", "-50", "HEAD", "--", r.a>> >>
      [] r.path = "/api/blame" -> << <<"blame", "-p", "HEAD", "--", r.a>> >>
      [] r.path = "/api/activity" ->
           << <<"log", "--format=%ad", "--date=short", "--since=90 days ago", "HEAD">> >>
      [] OTHER -> <<>>

SAFE ==
    {"log", "show", "diff", "blame", "ls-tree", "ls-files", "rev-list", "rev-parse",
     "shortlog", "for-each-ref", "stash", "tag", "branch", "remote", "status", "describe"}

\* GitAllowed turning down only the empty command
GitAllowedNonEmpty(args) == ~(args = <<>>)

\* the raw-command route passes the command on to git
GitAllowed(args) == ~(args = <<>> \/ args[1] \notin SAFE)

Resp(status, kind, body) == [status |-> status, kind |-> kind, body |-> body]

\* send a response and go back to the serve_forever loop
Reply(rsp) ==
    /\ response' = rsp
    /\ handler' = <<>>
    /\ spc' = "idle"

Routing(path) == spc = "route" /\ handler # <<>> /\ handler[1].path = path

\* serve_forever takes the next request; HTTPServer handles one at a time
Accept ==
    /\ spc = "idle"
    /\ backlog = <<>>
    /\ \E r \in Requests :
         /\ r.path = "/api/refresh" => run < MaxRuns
         /\ handler' = <<r>>
    /\ spc' = "route"
    /\ response' = <<>>
    /\ calls' = <<>>
    /\ UNCHANGED <<repo, git_present, initial_data, data, run, writes>>
    /\ UNCHANGED backlog
    /\ UNCHANGED <<pvars, qvars, mvars>>

ServeIndex ==
    /\ Routing("/")
    /\ Reply(Resp(200, "html", <<>>))
    /\ UNCHANGED <<repo, git_present, initial_data, data, run, writes>>
    /\ UNCHANGED <<calls, backlog>>
    /\ UNCHANGED <<pvars, qvars, mvars>>

ServeData ==
    /\ Routing("/api/data")
    /\ Reply(Resp(200, "data", initial_data))
    /\ UNCHANGED <<repo, git_present, initial_data, data, run, writes>>
    /\ UNCHANGED <<calls, backlog>>
    /\ UNCHANGED <<pvars, qvars, mvars>>

\* ServeQuery storing what a staged-diff query read into the snapshot
ServeQueryUpdatesSnapshot ==
    /\ spc = "route" /\ handler # <<>> /\ handler[1].path \in QueryPaths
    /\ LET r == handler[1]
           cmds == QueryCmds(r)
       IN  IF MissingParam(r)
           THEN /\ Reply(Resp(400, "error", <<>>))
                /\ UNCHANGED <<repo, initial_data, writes, calls>>
           ELSE IF cmds # <<>> /\ ~git_present
           THEN /\ Reply(Resp(500, "error", <<>>))
                /\ calls' = <<cmds[1]>>
                /\ UNCHANGED <<repo, initial_data, writes>>
           ELSE /\ repo' = GitEffects(cmds, repo)
                /\ writes' = (writes \/ repo' # repo)
                /\ calls' = cmds
                /\ Reply(Resp(200, "query", <<>>))
                /\ initial_data' = IF r.path = "/api/staged"
                                   THEN [initial_data EXCEPT ![4].seen = repo]
                                   ELSE initial_data
    /\ UNCHANGED <<git_present, data, run>>
    /\ UNCHANGED backlog
    /\ UNCHANGED <<pvars, qvars, mvars>>

\* commit, commits, range-diff, staged, unstaged, stash, file, file-log,
\* blame, activity, langs
ServeQuery ==
    /\ spc = "route" /\ handler # <<>> /\ handler[1].path \in QueryPaths
    /\ LET r == handler[1]
           cmds == QueryCmds(r)
       IN  IF MissingParam(r)
           THEN /\ Reply(Resp(400, "error", <<>>))
                /\ UNCHANGED <<repo, initial_data, writes, calls>>
           ELSE IF cmds # <<>> /\ ~git_present
           THEN /\ Reply(Resp(500, "error", <<>>))
                /\ calls' = <<cmds[1]>>
                /\ UNCHANGED <<repo, initial_data, writes>>
           ELSE /\ repo' = GitEffects(cmds, repo)
                /\ writes' = (writes \/ repo' # repo)
                /\ calls' = cmds
                /\ Reply(Resp(200, "query", <<>>))
                /\ UNCHANGED initial_data
    /\ UNCHANGED <<git_present, data, run>>
    /\ UNCHANGED backlog
    /\ UNCHANGED <<pvars, qvars, mvars>>

\* /api/refresh: collect_all_data starts
RefreshBegin ==
    /\ Routing("/api/refresh")
    /\ spc' = "collect"
    /\ run' = run + 1
    /\ data' = <<>>
    /\ UNCHANGED <<repo, git_present, initial_data, handler, response, writes>>
    /\ UNCHANGED <<calls, backlog>>
    /\ UNCHANGED <<pvars, qvars, mvars>>

\* CollectStep writing each sub-collection into the served snapshot
CollectStepInPlace ==
    /\ spc = "collect"
    /\ Len(data) < Len(CollectKeys)
    /\ LET k == Len(data) + 1
       IN  IF StepUsesGit(k) /\ ~git_present
           THEN /\ Reply(Resp(500, "error", <<>>))
                /\ data' = <<>>
                /\ calls' = Append(calls, StepCmd(k))
                /\ UNCHANGED initial_data
           ELSE /\ data' = Append(data, Collected(k, run, repo))
                /\ calls' = IF StepUsesGit(k) THEN Append(calls, StepCmd(k)) ELSE calls
                /\ initial_data' = [initial_data EXCEPT ![k] = Collected(k, run, repo)]
                /\ UNCHANGED <<handler, spc, response>>
    /\ UNCHANGED <<repo, git_present, run, writes>>
    /\ UNCHANGED backlog
    /\ UNCHANGED <<pvars, qvars, mvars>>

\* CollectStep leaving what was collected before the failure as the snapshot
CollectStepKeepsPartial ==
    /\ spc = "collect"
    /\ Len(data) < Len(CollectKeys)
    /\ LET k == Len(data) + 1
       IN  IF StepUsesGit(k) /\ ~git_present
           THEN /\ Reply(Resp(500, "error", <<>>))
                /\ data' = <<>>
                /\ calls' = Append(calls, StepCmd(k))
                /\ initial_data' = data
           ELSE /\ data' = Append(data, Collected(k, run, repo))
                /\ calls' = IF StepUsesGit(k) THEN Append(calls, StepCmd(k)) ELSE calls
                /\ UNCHANGED <<handler, spc, response, initial_data>>
    /\ UNCHANGED <<repo, git_present, run, writes>>
    /\ UNCHANGED backlog
    /\ UNCHANGED <<pvars, qvars, mvars>>

\* collect_all_data makes its next sub-collection, or raises
CollectStep ==
    /\ spc = "collect"
    /\ Len(data) < Len(CollectKeys)
    /\ LET k == Len(data) + 1
       IN  IF StepUsesGit(k) /\ ~git_present
           THEN /\ Reply(Resp(500, "error", <<>>))
                /\ data' = <<>>
                /\ calls' = Append(calls, StepCmd(k))
           ELSE /\ data' = Append(data, Collected(k, run, repo))
                /\ calls' = IF StepUsesGit(k) THEN Append(calls, StepCmd(k)) ELSE calls
                /\ UNCHANGED <<handler, spc, response>>
    /\ UNCHANGED <<repo, git_present, initial_data, run, writes>>
    /\ UNCHANGED backlog
    /\ UNCHANGED <<pvars, qvars, mvars>>

\* collect_all_data returns, the handler replaces the snapshot and answers
RefreshSwap ==
    /\ spc = "collect"
    /\ Len(data) = Len(CollectKeys)
    /\ initial_data' = data
    /\ data' = <<>>
    /\ Reply(Resp(200, "ok", <<>>))
    /\ UNCHANGED <<repo, git_present, run, writes>>
    /\ UNCHANGED <<calls, backlog>>
    /\ UNCHANGED <<pvars, qvars, mvars>>

\* /api/git: the raw-command passthrough
ServeGit ==
    /\ Routing("/api/git")
    /\ LET args == SplitTokens(handler[1].a, "")
       IN  IF ~GitAllowed(args)
           THEN /\ Reply(Resp(403, "error", <<>>))
                /\ UNCHANGED <<repo, writes, calls>>
           ELSE IF ~git_present
           THEN /\ Reply(Resp(500, "error", <<>>))
                /\ calls' = <<args>>
                /\ UNCHANGED <<repo, writes>>
           ELSE /\ repo' = GitEffect(args, repo)
                /\ writes' = (writes \/ repo' # repo)
                /\ calls' = <<args>>
                /\ Reply(Resp(200, "output", <<>>))
    /\ UNCHANGED <<git_present, initial_data, data, run>>
    /\ UNCHANGED backlog
    /\ UNCHANGED <<pvars, qvars, mvars>>

NotFound ==
    /\ spc = "route" /\ handler # <<>>
    /\ handler[1].path \notin QueryPaths \cup {"/", "/api/data", "/api/refresh", "/api/git"}
    /\ Reply(Resp(404, "error", <<>>))
    /\ UNCHANGED <<repo, git_present, initial_data, data, run, writes>>
    /\ UNCHANGED <<calls, backlog>>
    /\ UNCHANGED <<pvars, qvars, mvars>>

\* a request reaches the listening socket while the handler is serving
\* another one: it stays in the socket's queue
Arrive ==
    /\ spc # "idle"
    /\ Len(backlog) < MaxBacklog
    /\ backlog' = Append(backlog, Req("/api/data", "", ""))
    /\ UNCHANGED <<repo, git_present, initial_data, handler, spc, data, response, run,
                   writes, calls>>
    /\ UNCHANGED <<pvars, qvars, mvars>>

\* serve_forever takes the request that has waited longest
AcceptQueued ==
    /\ spc = "idle"
    /\ backlog # <<>>
    /\ handler' = <<Head(backlog)>>
    /\ backlog' = Tail(backlog)
    /\ spc' = "route"
    /\ response' = <<>>
    /\ calls' = <<>>
    /\ UNCHANGED <<repo, git_present, initial_data, data, run, writes>>
    /\ UNCHANGED <<pvars, qvars, mvars>>

NextServer ==
    \/ Accept
    \/ ServeIndex
    \/ ServeData
    \/ ServeQuery
    \/ RefreshBegin
    \/ CollectStep
    \/ RefreshSwap
    \/ ServeGit
    \/ NotFound
    \/ RepoChange
    \/ ToolChange

\* the server with requests arriving while it is busy
NextListen ==
    \/ NextServer
    \/ Arrive
    \/ AcceptQueued

(***************************************************************************)
(* run_git                                                                 *)
(***************************************************************************)
\* what starting git can meet: it starts, the executable is not on the PATH,
\* the working directory does not exist, the working directory is a file
Launches == {"ok", "no_executable", "no_cwd", "cwd_not_a_directory"}

ExitCodes == {0, 1, 128}

Outputs == {"", "x\n"}

Procs == [launch : Launches, hangs : BOOLEAN, code : ExitCodes, stdout : Outputs]

\* SubprocessRun with check=True whatever the caller asked for
SubprocessRunAlwaysChecked(p, c) ==
    IF p.launch \in {"no_executable", "no_cwd"} THEN [exc |-> "FileNotFoundError", stdout |-> ""]
    ELSE IF p.launch = "cwd_not_a_directory" THEN [exc |-> "NotADirectoryError", stdout |-> ""]
    ELSE IF p.hangs THEN [exc |-> "TimeoutExpired", stdout |-> ""]
    ELSE IF p.code # 0 THEN [exc |-> "CalledProcessError", stdout |-> ""]
    ELSE [exc |-> "", stdout |-> p.stdout]

\* subprocess.run(["git"] + args, cwd=..., capture_output=True, check=c,
\* timeout=...): the exception it raises ("" if none) and the stdout of the
\* CompletedProcess it returns
SubprocessRun(p, c) ==
    IF p.launch \in {"no_executable", "no_cwd"} THEN [exc |-> "FileNotFoundError", stdout |-> ""]
    ELSE IF p.launch = "cwd_not_a_directory" THEN [exc |-> "NotADirectoryError", stdout |-> ""]
    ELSE IF p.hangs THEN [exc |-> "TimeoutExpired", stdout |-> ""]
    ELSE IF c /\ p.code # 0 THEN [exc |-> "CalledProcessError", stdout |-> ""]
    ELSE [exc |-> "", stdout |-> p.stdout]

\* run_git leaves with a value or an exception
Leave(pos, val) ==
    /\ rpc' = pos
    /\ returned' = val
    /\ UNCHANGED <<check, proc, completed>>
    /\ UNCHANGED <<pvars, svars, mvars, tvars, hvars, bvars>>

\* the try block runs git
RunGitTry ==
    /\ rpc = "try"
    /\ completed' = <<SubprocessRun(proc, check)>>
    /\ rpc' = "ran"
    /\ UNCHANGED <<check, proc, returned>>
    /\ UNCHANGED <<pvars, svars, mvars, tvars, hvars, bvars>>

\* return result.stdout
RunGitReturn ==
    /\ rpc = "ran"
    /\ completed[1].exc = ""
    /\ Leave("returned", <<completed[1].stdout>>)

\* except subprocess.TimeoutExpired
RunGitTimeout ==
    /\ rpc = "ran"
    /\ completed[1].exc = "TimeoutExpired"
    /\ Leave("returned", <<"">>)

\* except FileNotFoundError: raise RuntimeError("git not found. ...")
RunGitNotFound ==
    /\ rpc = "ran"
    /\ completed[1].exc = "FileNotFoundError"
    /\ Leave("raised", <<>>)

\* except Exception
RunGitOther ==
    /\ rpc = "ran"
    /\ completed[1].exc \notin {"", "TimeoutExpired", "FileNotFoundError"}
    /\ Leave("returned", <<"">>)

NextRunGit ==
    \/ RunGitTry
    \/ RunGitReturn
    \/ RunGitTimeout
    \/ RunGitNotFound
    \/ RunGitOther

(***************************************************************************)
(* cli.main: resolve the repository root, collect the first snapshot,      *)
(* start the server.                                                       *)
(***************************************************************************)
\* what run_git gives its caller when it meets p: <<>> if it raises, else
\* <<the text it returns>>
RunGit(p, c) ==
    LET r == SubprocessRun(p, c)
    IN  IF r.exc = "" THEN <<r.stdout>>
        ELSE IF r.exc = "FileNotFoundError" THEN <<>>
        ELSE <<"">>

\* the paths main can be given: inside the repository, outside any
\* repository, not existing
Paths == {"/repo/sub", "/tmp", "/nonexistent"}

\* `git rev-parse --show-toplevel` run in directory path
RevParseTopLevel(path, hangs) ==
    [launch |-> IF path = "/nonexistent" THEN "no_cwd"
                ELSE IF ~git_present THEN "no_executable" ELSE "ok",
     hangs |-> hangs,
     code |-> IF path = "/repo/sub" THEN 0 ELSE 128,
     stdout |-> IF path = "/repo/sub" THEN "/repo\n" ELSE ""]

\* get_repo_root(path): <<>> if it raises RuntimeError, else <<the root>>
GetRepoRoot(path, hangs) ==
    LET out == RunGit(RevParseTopLevel(path, hangs), FALSE)
    IN  IF out = <<>> THEN <<>>
        ELSE IF Strip(out[1]) = "" THEN <<>>
        ELSE <<Strip(out[1])>>

\* print the error, sys.exit(1)
Exit(msg) ==
    /\ stderr' = msg
    /\ exit_status' = <<1>>
    /\ mpc' = "exit"

\* main resolves the repository root
MainGetRepoRoot ==
    /\ mpc = "get_repo_root"
    /\ \E hangs \in BOOLEAN :
         LET root == GetRepoRoot(repo_path, hangs)
         IN  IF root = <<>>
             THEN Exit("Error") /\ UNCHANGED repo_root
             ELSE /\ repo_root' = root
                  /\ mpc' = "collect_all_data"
                  /\ UNCHANGED <<stderr, exit_status>>
    /\ UNCHANGED <<repo_path, pvars, svars, qvars>>

\* MainCollectStep going on with an empty sub-collection when one raises
MainCollectStepSwallows ==
    /\ mpc = "collect_all_data"
    /\ Len(data) < Len(CollectKeys)
    /\ data' = Append(data, Collected(Len(data) + 1, run, repo))
    /\ UNCHANGED <<mpc, stderr, exit_status>>
    /\ UNCHANGED <<repo, git_present, initial_data, handler, spc, response, run, writes,
                   calls, backlog>>
    /\ UNCHANGED <<repo_path, repo_root, pvars, qvars>>

\* main's collect_all_data makes its next sub-collection, or raises
MainCollectStep ==
    /\ mpc = "collect_all_data"
    /\ Len(data) < Len(CollectKeys)
    /\ LET k == Len(data) + 1
       IN  IF StepUsesGit(k) /\ ~git_present
           THEN /\ Exit("Failed to collect git data")
                /\ data' = <<>>
           ELSE /\ data' = Append(data, Collected(k, run, repo))
                /\ UNCHANGED <<mpc, stderr, exit_status>>
    /\ UNCHANGED <<repo, git_present, initial_data, handler, spc, response, run, writes,
                   calls, backlog>>
    /\ UNCHANGED <<repo_path, repo_root, pvars, qvars>>

\* collect_all_data has returned: start_server stores the snapshot in the
\* handler class and enters serve_forever
MainStartServer ==
    /\ mpc = "collect_all_data"
    /\ Len(data) = Len(CollectKeys)
    /\ initial_data' = data
    /\ data' = <<>>
    /\ spc' = "idle"
    /\ mpc' = "start_server"
    /\ UNCHANGED <<repo, git_present, handler, response, run, writes, calls, backlog>>
    /\ UNCHANGED <<repo_path, repo_root, stderr, exit_status, pvars, qvars>>

NextMain ==
    \/ MainGetRepoRoot
    \/ MainCollectStep
    \/ MainStartServer
    \/ NextServer

(***************************************************************************)
(* _relative_time                                                          *)
(***************************************************************************)
\* int(now - t) for a clock n counted in half seconds: the whole seconds
\* of the difference, rounded towards zero
Diff(t, n) ==
    IF n - 2 * t >= 0 THEN (n - 2 * t) \div 2 ELSE 0 - ((2 * t - n) \div 2)

\* f"{n} {unit}{'s' if n != 1 else ''} ago"
Ago(n, unit) == ToString(n) \o " " \o unit \o (IF n # 1 THEN "s" ELSE "") \o " ago"

\* RelativeTime with the first bucket closed at 60 seconds
RelativeTimeInclusive(t, n) ==
    LET diff == Diff(t, n)
    IN  IF t = 0 THEN ""
        ELSE IF diff <= 60 THEN "just now"
        ELSE IF diff < 3600 THEN Ago(diff \div 60, "minute")
        ELSE IF diff < 86400 THEN Ago(diff \div 3600, "hour")
        ELSE IF diff < 604800 THEN Ago(diff \div 86400, "day")
        ELSE IF diff < 2592000 THEN Ago(diff \div 604800, "week")
        ELSE IF diff < 31536000 THEN Ago(diff \div 2592000, "month")
        ELSE Ago(diff \div 31536000, "year")

\* _relative_time(t) called when the clock shows n
RelativeTime(t, n) ==
    LET diff == Diff(t, n)
    IN  IF t = 0 THEN ""
        ELSE IF diff < 60 THEN "just now"
        ELSE IF diff < 3600 THEN Ago(diff \div 60, "minute")
        ELSE IF diff < 86400 THEN Ago(diff \div 3600, "hour")
        ELSE IF diff < 604800 THEN Ago(diff \div 86400, "day")
        ELSE IF diff < 2592000 THEN Ago(diff \div 604800, "week")
        ELSE IF diff < 31536000 THEN Ago(diff \div 2592000, "month")
        ELSE Ago(diff \div 31536000, "year")

\* the ages, in seconds, at which the model calls _relative_time: both
\* sides of every bucket boundary, a future timestamp, singular and plural
\* counts
Ages ==
    { -5, 0, 30, 59, 60, 90, 119, 120, 3599, 3600, 7199, 7200, 86399, 86400, 172800,
      604799, 604800, 1209600, 2591999, 2592000, 5184000, 31535999, 31536000, 63072000 }

Timestamps == {0, 1000}

\* the clock readings: a timestamp plus an age, on the second or half a
\* second after it
Clock == {2 * (t + a) + half : t \in Timestamps \ {0}, a \in Ages, half \in {0, 1}}

RelativeTimeCall ==
    /\ relative = <<>>
    /\ now \in Clock
    /\ relative' = <<RelativeTime(ts, now)>>
    /\ UNCHANGED <<ts, now>>
    /\ UNCHANGED <<pvars, svars, mvars, rvars, hvars, bvars>>

NextRelativeTime == RelativeTimeCall

(***************************************************************************)
(* get_commit_history                                                      *)
(***************************************************************************)
MaxLogLines == 2
MaxCalls == 2

\* s.split("|", n)
RECURSIVE SplitBar(_, _)
SplitBar(s, n) ==
    LET bars == {k \in 1..Len(s) : Ch(s, k) = "|"}
    IN  IF n = 0 \/ bars = {} THEN <<s>>
        ELSE <<SubSeq(s, 1, SetMin(bars) - 1)>> \o SplitBar(DropPrefix(s, SetMin(bars)), n - 1)

\* s.isdigit()
IsDigitStr(s) == Len(s) > 0 /\ \A k \in 1..Len(s) : IsDigit(Ch(s, k))

\* int(s) if s.strip().isdigit() else 0
IntOrZero(s) == IF IsDigitStr(Strip(s)) THEN ParseInt(Strip(s)) ELSE 0

\* text.splitlines(): the lines between the "\n", without the empty piece
\* after a final "\n"
Splitlines(s) ==
    LET ls == SplitLines(s)
    IN  IF ls[Len(ls)] = "" THEN SubSeq(ls, 1, Len(ls) - 1) ELSE ls

\* datetime.fromtimestamp(t).strftime(...) if t else "": the text is a
\* function of t alone; it is kept as <<t>> (<<>> for "")
DateOf(t) == IF t # 0 THEN <<t>> ELSE <<>>

\* CommitEntry with the date computed from the clock instead of the timestamp
CommitEntryDateFromClock(parts, n) ==
    [hash |-> Strip(parts[1]),
     short_hash |-> Strip(parts[2]),
     author_name |-> Strip(parts[3]),
     author_email |-> Strip(parts[4]),
     author_timestamp |-> IntOrZero(parts[5]),
     date |-> DateOf(IF IntOrZero(parts[5]) # 0 THEN n \div 2 ELSE 0),
     date_relative |-> RelativeTime(IntOrZero(parts[5]), n),
     committer_name |-> Strip(parts[6]),
     committer_email |-> Strip(parts[7]),
     committer_timestamp |-> IntOrZero(parts[8]),
     subject |-> Strip(parts[9]),
     parents |-> SplitTokens(parts[10], ""),
     refs |-> IF Len(parts) > 10 THEN Strip(parts[11]) ELSE ""]

\* the dict get_commit_history appends for the fields parts of a line
CommitEntry(parts, n) ==
    [hash |-> Strip(parts[1]),
     short_hash |-> Strip(parts[2]),
     author_name |-> Strip(parts[3]),
     author_email |-> Strip(parts[4]),
     author_timestamp |-> IntOrZero(parts[5]),
     date |-> DateOf(IntOrZero(parts[5])),
     date_relative |-> RelativeTime(IntOrZero(parts[5]), n),
     committer_name |-> Strip(parts[6]),
     committer_email |-> Strip(parts[7]),
     committer_timestamp |-> IntOrZero(parts[8]),
     subject |-> Strip(parts[9]),
     parents |-> SplitTokens(parts[10], ""),
     refs |-> IF Len(parts) > 10 THEN Strip(parts[11]) ELSE ""]

\* the loop over the lines ls, called when the clock shows n
RECURSIVE CommitsOf(_, _)
CommitsOf(ls, n) ==
    IF Len(ls) = 0 THEN <<>>
    ELSE IF Strip(Head(ls)) = "" THEN CommitsOf(Tail(ls), n)
    ELSE IF Len(SplitBar(Head(ls), 10)) < 10 THEN CommitsOf(Tail(ls), n)
    ELSE <<CommitEntry(SplitBar(Head(ls), 10), n)>> \o CommitsOf(Tail(ls), n)

\* get_commit_history when git log printed text and the clock shows n
GetCommitHistory(text, n) == CommitsOf(Splitlines(text), n)

\* the commits of the repository, as git has them: one plain commit, a merge
\* whose subject holds a "|", and a commit whose author name holds a "|"
Commits ==
    { [H |-> "h2", h |-> "s2", an |-> "Ann", ae |-> "a@x", at |-> 1000,
       cn |-> "Ann", ce |-> "a@x", ct |-> 1000, s |-> "second",
       P |-> <<"h1">>, D |-> "HEAD -> main"],
      [H |-> "h3", h |-> "s3", an |-> "Bob", ae |-> "b@x", at |-> 1000,
       cn |-> "Cy", ce |-> "c@x", ct |-> 1000, s |-> "merge a|b",
       P |-> <<"h1", "h2">>, D |-> ""],
      [H |-> "h4", h |-> "s4", an |-> "A|B", ae |-> "a@x", at |-> 1000,
       cn |-> "Ann", ce |-> "a@x", ct |-> 1000, s |-> "fix",
       P |-> <<"h3">>, D |-> ""] }

\* " ".join(ws)
RECURSIVE JoinSpace(_)
JoinSpace(ws) ==
    IF Len(ws) = 0 THEN ""
    ELSE IF Len(ws) = 1 THEN ws[1]
    ELSE ws[1] \o " " \o JoinSpace(Tail(ws))

\* the line git log --format=%H|%h|%an|%ae|%at|%cn|%ce|%ct|%s|%P|%D prints
\* for the commit c
FormatCommit(c) ==
    c.H \o "|" \o c.h \o "|" \o c.an \o "|" \o c.ae \o "|" \o ToString(c.at) \o "|"
        \o c.cn \o "|" \o c.ce \o "|" \o ToString(c.ct) \o "|" \o c.s \o "|"
        \o JoinSpace(c.P) \o "|" \o c.D

\* lines get_commit_history may read: those of Commits, and lines that are
\* not in the format (a timestamp that is no number, too few fields, blank)
LogLines ==
    {FormatCommit(c) : c \in Commits} \cup
    { "h1|s1|Ann|a@x|soon|Ann|a@x||first||",
      "h0|s0|cut",
      " " }

Logs == {JoinLines(ls) \o end : ls \in SeqsUpTo(LogLines, MaxLogLines), end \in {"", "\n"}}

\* the clock readings at which the model calls get_commit_history
CallTimes == {2 * (1000 + a) + half : a \in {30, 59, 60, 7200}, half \in {0, 1}}

\* time passes
Tick ==
    /\ \E n \in CallTimes : n > now /\ now' = n
    /\ UNCHANGED <<ts, relative, raw, history>>
    /\ UNCHANGED <<pvars, svars, mvars, rvars, bvars>>

\* a call of get_commit_history(repo_root)
GetCommitHistoryCall ==
    /\ Len(history) < MaxCalls
    /\ history' = Append(history, [at |-> now, commits |-> GetCommitHistory(raw, now)])
    /\ UNCHANGED <<ts, now, relative, raw>>
    /\ UNCHANGED <<pvars, svars, mvars, rvars, bvars>>

NextHistory ==
    \/ Tick
    \/ GetCommitHistoryCall

(***************************************************************************)
(* get_file_blame                                                          *)
(***************************************************************************)
MaxBlameLines == 3

IsHex(c) == IsDigit(c) \/ c \in {"a", "b", "c", "d", "e", "f"}

\* re.match(r"^[0-9a-f]{40} ", line)
BlameHeaderMatch(line) ==
    /\ Len(line) >= 41
    /\ \A k \in 1..40 : IsHex(Ch(line, k))
    /\ Ch(line, 41) = " "

\* int(s) does not raise ValueError: digits, after an optional sign
IntParses(s) ==
    \/ IsDigitStr(s)
    \/ Len(s) > 1 /\ Ch(s, 1) \in {"+", "-"} /\ IsDigitStr(DropPrefix(s, 1))

\* the branch of the if/elif chain that a line of the blame output takes
BlameBranch(line) ==
    IF BlameHeaderMatch(line) THEN "header"
    ELSE IF StartsWith(line, "author ") THEN "author"
    ELSE IF StartsWith(line, "author-time ") THEN "author_time"
    ELSE IF StartsWith(line, "summary ") THEN "summary"
    ELSE IF StartsWith(line, "\t") THEN "content"
    ELSE "none"

\* lines of git blame -p output, whole and damaged
BlameLines ==
    { "aaaaaaaaaaaaaaaaaaaaaaaaaaaaaaaaaaaaaaaa 1 1 1", "0123456789abcdef0123456789abcdef01234567 2 2",
      "author Ann", "author-time 1000", "author-time soon", "summary fix",
      "\tcode", "filename f.txt", "aaaaaaa 1 1" }

\* the texts run_git gives get_file_blame
BlameTexts ==
    {JoinLines(ls) \o end : ls \in SeqsUpTo(BlameLines, MaxBlameLines), end \in {"", "\n"}}

\* the loop is at line blame_i (0-based) and that line takes branch b
AtBlameBranch(b) ==
    bpc = "scan" /\ blame_i < Len(blame_raw) /\ BlameBranch(blame_raw[blame_i + 1]) = b

\* meta[current_hash] exists: the subscript does not raise KeyError
HasMeta == current_hash # <<>> /\ current_hash[1] \in DOMAIN meta

BlameRaise ==
    /\ bpc' = "raised"
    /\ UNCHANGED <<blame_raw, blame_i, current_hash, meta, blame_lines>>

\* the loop body sets one key of meta[current_hash], or raises KeyError
SetMeta(m) ==
    IF HasMeta
    THEN /\ meta' = [meta EXCEPT ![current_hash[1]] = m]
         /\ blame_i' = blame_i + 1
         /\ UNCHANGED <<blame_raw, current_hash, blame_lines, bpc>>
    ELSE BlameRaise

\* a commit header line: its hash becomes current, with a meta dict if it
\* has none yet
BlameHeader ==
    /\ AtBlameBranch("header")
    /\ LET h == SplitTokens(blame_raw[blame_i + 1], "")[1]
       IN  /\ current_hash' = <<h>>
           /\ meta' = IF h \in DOMAIN meta THEN meta
                      ELSE [x \in DOMAIN meta \cup {h} |->
                              IF x = h
                              THEN [hash |-> h, short_hash |-> SubSeq(h, 1, 7),
                                    author |-> <<>>, date |-> <<>>, summary |-> <<>>]
                              ELSE meta[x]]
    /\ blame_i' = blame_i + 1
    /\ UNCHANGED <<blame_raw, blame_lines, bpc>>
    /\ UNCHANGED <<pvars, svars, mvars, rvars, tvars, hvars>>

BlameAuthor ==
    /\ AtBlameBranch("author")
    /\ SetMeta([meta[current_hash[1]] EXCEPT
                  !.author = <<Strip(DropPrefix(blame_raw[blame_i + 1], 7))>>])
    /\ UNCHANGED <<pvars, svars, mvars, rvars, tvars, hvars>>

BlameAuthorTime ==
    /\ AtBlameBranch("author_time")
    /\ LET v == Strip(DropPrefix(blame_raw[blame_i + 1], 12))
       IN  IF ~IntParses(v) THEN BlameRaise
           ELSE SetMeta([meta[current_hash[1]] EXCEPT !.date = DateOf(ParseInt(v))])
    /\ UNCHANGED <<pvars, svars, mvars, rvars, tvars, hvars>>

BlameSummary ==
    /\ AtBlameBranch("summary")
    /\ SetMeta([meta[current_hash[1]] EXCEPT
                  !.summary = <<Strip(DropPrefix(blame_raw[blame_i + 1], 8))>>])
    /\ UNCHANGED <<pvars, svars, mvars, rvars, tvars, hvars>>

\* a content line: one entry, attributed to the current hash; its "meta" is
\* the dict meta holds for that hash, an empty dict if there is none
BlameContent ==
    /\ AtBlameBranch("content")
    /\ blame_lines' = Append(blame_lines,
                             [content |-> DropPrefix(blame_raw[blame_i + 1], 1),
                              hash |-> current_hash])
    /\ blame_i' = blame_i + 1
    /\ UNCHANGED <<blame_raw, current_hash, meta, bpc>>
    /\ UNCHANGED <<pvars, svars, mvars, rvars, tvars, hvars>>

\* a line no branch takes
BlameOther ==
    /\ AtBlameBranch("none")
    /\ blame_i' = blame_i + 1
    /\ UNCHANGED <<blame_raw, current_hash, meta, blame_lines, bpc>>
    /\ UNCHANGED <<pvars, svars, mvars, rvars, tvars, hvars>>

\* return lines
BlameFinish ==
    /\ bpc = "scan"
    /\ blame_i >= Len(blame_raw)
    /\ bpc' = "done"
    /\ UNCHANGED <<blame_raw, blame_i, current_hash, meta, blame_lines>>
    /\ UNCHANGED <<pvars, svars, mvars, rvars, tvars, hvars>>

NextBlame ==
    \/ BlameHeader
    \/ BlameAuthor
    \/ BlameAuthorTime
    \/ BlameSummary
    \/ BlameContent
    \/ BlameOther
    \/ BlameFinish

(***************************************************************************)
(* Specifications.                                                         *)
(***************************************************************************)
ParserOff ==
    /\ lines = <<>> /\ i = 0 /\ files = <<>> /\ current_file = <<>>
    /\ current_hunks = <<>> /\ current_hunk = 0 /\ in_hunk = FALSE
    /\ heap = <<>> /\ origin = <<>> /\ result = <<>> /\ pc = "off"

Repo0 == [rev |-> 0, tags |-> {}, pushed |-> FALSE]

\* the server as start_server leaves it: the snapshot is the one main collected
ServerStarted ==
    /\ repo = Repo0
    /\ git_present = TRUE
    /\ initial_data = [k \in 1..Len(CollectKeys) |-> Collected(k, 0, Repo0)]
    /\ handler = <<>>
    /\ spc = "idle"
    /\ data = <<>>
    /\ response = <<>>
    /\ run = 0
    /\ writes = FALSE
    /\ calls = <<>>
    /\ backlog = <<>>
    /\ repo_path = "/repo/sub"
    /\ repo_root = <<"/repo">>
    /\ mpc = "start_server"
    /\ stderr = ""
    /\ exit_status = <<>>

\* no run_git call is being followed
RunGitOff ==
    /\ check = FALSE
    /\ proc = [launch |-> "ok", hangs |-> FALSE, code |-> 0, stdout |-> ""]
    /\ completed = <<>>
    /\ returned = <<>>
    /\ rpc = "off"

\* no _relative_time or get_commit_history call is being followed
HistoryOff ==
    /\ ts = 0
    /\ now = 0
    /\ relative = <<>>
    /\ raw = ""
    /\ history = <<>>

\* no get_file_blame call is being followed
BlameOff ==
    /\ blame_raw = <<>>
    /\ blame_i = 0
    /\ current_hash = <<>>
    /\ meta = <<>>
    /\ blame_lines = <<>>
    /\ bpc = "off"

QueryOff == RunGitOff /\ HistoryOff /\ BlameOff

InitParse ==
    /\ \E diff_raw \in Inputs : lines = SplitLines(diff_raw)
    /\ i = 0
    /\ files = <<>>
    /\ current_file = <<>>
    /\ current_hunks = <<>>
    /\ current_hunk = 0
    /\ in_hunk = FALSE
    /\ heap = <<>>
    /\ origin = <<>>
    /\ result = <<>>
    /\ pc = "scan"
    /\ ServerStarted
    /\ QueryOff

InitServer == ParserOff /\ ServerStarted /\ QueryOff

\* a call of run_git, with either value of check, meeting any of Procs
InitRunGit ==
    /\ ParserOff
    /\ ServerStarted
    /\ HistoryOff
    /\ BlameOff
    /\ check \in BOOLEAN
    /\ proc \in Procs
    /\ completed = <<>>
    /\ returned = <<>>
    /\ rpc = "try"

SpecParse == InitParse /\ [][NextParse]_vars

SpecRunGit == InitRunGit /\ [][NextRunGit]_vars

\* main has parsed its arguments: no server yet, no snapshot
InitMain ==
    /\ ParserOff
    /\ QueryOff
    /\ repo = Repo0
    /\ git_present \in BOOLEAN
    /\ initial_data = <<>>
    /\ handler = <<>>
    /\ spc = "down"
    /\ data = <<>>
    /\ response = <<>>
    /\ run = 0
    /\ writes = FALSE
    /\ calls = <<>>
    /\ backlog = <<>>
    /\ repo_path \in Paths
    /\ repo_root = <<>>
    /\ mpc = "get_repo_root"
    /\ stderr = ""
    /\ exit_status = <<>>

SpecMain == InitMain /\ [][NextMain]_vars

\* a call of _relative_time for a timestamp, at any of the clock readings
InitRelativeTime ==
    /\ ParserOff
    /\ ServerStarted
    /\ RunGitOff
    /\ BlameOff
    /\ ts \in Timestamps
    /\ now \in Clock
    /\ relative = <<>>
    /\ raw = ""
    /\ history = <<>>

SpecRelativeTime == InitRelativeTime /\ [][NextRelativeTime]_vars

\* a repository whose log is any of Logs, at the first of the call times
InitHistory ==
    /\ ParserOff
    /\ ServerStarted
    /\ RunGitOff
    /\ BlameOff
    /\ ts = 0
    /\ now = SetMin(CallTimes)
    /\ relative = <<>>
    /\ raw \in Logs
    /\ history = <<>>

SpecHistory == InitHistory /\ [][NextHistory]_vars

\* a call of get_file_blame for which git printed any of BlameTexts
InitBlame ==
    /\ ParserOff
    /\ ServerStarted
    /\ RunGitOff
    /\ HistoryOff
    /\ \E text \in BlameTexts : blame_raw = Splitlines(text)
    /\ blame_i = 0
    /\ current_hash = <<>>
    /\ meta = <<>>
    /\ blame_lines = <<>>
    /\ bpc = "scan"

SpecBlame == InitBlame /\ [][NextBlame]_vars

SpecListen == InitServer /\ [][NextListen]_vars

SpecServer == InitServer /\ [][NextServer]_vars

(***************************************************************************)
(* Properties of parse_diff (checked under SpecParse).                     *)
(***************************************************************************)
IsFileHeader(l) == StartsWith(l, "diff --git ")

IsHunkHeader(l) == StartsWith(l, "@@") /\ HunkMatch(l) # <<>>

IsMalformedHeader(l) == StartsWith(l, "@@") /\ HunkMatch(l) = <<>>

\* the number of file-pair headers among the first k input lines
FileHeadersUpTo(k) == Cardinality({j \in 1..k : IsFileHeader(lines[j])})

\* the input lines of the n-th file section, its file-pair header included
Section(n) == {j \in 1..Len(lines) : FileHeadersUpTo(j) = n}

\* input line j was recorded as a Line of some hunk
Recorded(j) ==
    \E h \in 1..Len(origin) : \E n \in 1..Len(origin[h].body) : origin[h].body[n] = j

SumsHold(f) ==
    /\ f.additions = SumSeq([k \in 1..Len(f.hunks) |-> heap[f.hunks[k]].additions])
    /\ f.deletions = SumSeq([k \in 1..Len(f.hunks) |-> heap[f.hunks[k]].deletions])

\* C1: every FileDiff that has been closed, and every FileDiff of the
\* result, has additions and deletions equal to the sums over its hunks
\* list; the result's totals are the sums over its files and total_files
\* is the number of files.
SummationInvariant ==
    /\ \A k \in 1..Len(files) : SumsHold(files[k])
    /\ pc = "done" =>
         /\ \A k \in 1..Len(result[1].files) : SumsHold(result[1].files[k])
         /\ result[1].total_additions =
              SumSeq([k \in 1..Len(result[1].files) |-> result[1].files[k].additions])
         /\ result[1].total_deletions =
              SumSeq([k \in 1..Len(result[1].files) |-> result[1].files[k].deletions])
         /\ result[1].total_files = Len(result[1].files)

\* a result whose file has a hunk with an addition and a deletion
SummationWitness ==
    /\ pc = "done"
    /\ result[1].total_additions >= 1
    /\ result[1].total_deletions >= 1
    /\ \E k \in 1..Len(result[1].files) : Len(result[1].files[k].hunks) >= 1

\* C2: after a line starting with "@@" in a file section that does not
\* match the hunk-header pattern, no body line up to the next valid hunk
\* header or file-pair header is recorded in any hunk.
MalformedHeaderDropsBody ==
    pc = "done" =>
      \A k \in 1..Len(lines) :
        (IsMalformedHeader(lines[k]) /\ FileHeadersUpTo(k) >= 1) =>
          \A j \in (k + 1)..Len(lines) :
            (\A n \in (k + 1)..j : ~IsFileHeader(lines[n]) /\ ~IsHunkHeader(lines[n]))
              => ~Recorded(j)

\* the index of the n-th file-pair header of the input
FileHeaderLine(n) == CHOOSE j \in 1..Len(lines) : IsFileHeader(lines[j]) /\ FileHeadersUpTo(j) = n

\* C3: the result has one FileDiff per input line beginning with
\* "diff --git ", in input order (a file whose section has no rename line
\* carries the paths of its own header); every hunk opened by a valid hunk
\* header is in the hunks list of the file of the nearest preceding
\* file-pair header and in no other file's, so the hunk open at the next
\* file-pair header or at end of input is not lost.
FileSegmentation ==
    pc = "done" =>
      /\ Len(result[1].files) = FileHeadersUpTo(Len(lines))
      /\ \A n \in 1..Len(result[1].files) :
           (\A j \in Section(n) : ~StartsWith(lines[j], "rename "))
             => /\ result[1].files[n].old_path = DiffGitPaths(lines[FileHeaderLine(n)])[1]
                /\ result[1].files[n].new_path = DiffGitPaths(lines[FileHeaderLine(n)])[2]
      /\ \A j \in 1..Len(lines) :
           (IsHunkHeader(lines[j]) /\ FileHeadersUpTo(j) >= 1) =>
             \E h \in 1..Len(heap) :
               /\ origin[h].hdr = j
               /\ \A n \in 1..Len(result[1].files) :
                    (\E k \in 1..Len(result[1].files[n].hunks) : result[1].files[n].hunks[k] = h)
                      <=> n = FileHeadersUpTo(j)

\* two files, the first closed by the second file's header while its hunk
\* was open, the second closed by the end of input while its hunk was open
FileSegmentationWitness ==
    /\ pc = "done"
    /\ Len(result[1].files) = 2
    /\ Len(result[1].files[1].hunks) = 1
    /\ Len(result[1].files[2].hunks) = 1
    /\ IsHunkHeader(lines[Len(lines)])

\* a step of the scan that reads a line while a hunk is open
BodyStep == AtBranch("body") /\ i' = i + 1

\* the open hunk gets exactly one more Line, of kind t, made from the line read
AppendsLine(t) ==
    /\ heap'[current_hunk].lines =
         Append(heap[current_hunk].lines,
                [type |-> t, content |-> DropPrefix(lines[i + 1], 1)])
    /\ heap'[current_hunk].additions =
         heap[current_hunk].additions + (IF t = "add" THEN 1 ELSE 0)
    /\ heap'[current_hunk].deletions =
         heap[current_hunk].deletions + (IF t = "del" THEN 1 ELSE 0)

\* C4: while a hunk is open, a body line whose first character is "+" is
\* appended as one addition Line, "-" as one deletion Line, " " as one
\* context Line, "\" as one no-newline-marker Line, each with the content
\* of the line less its first character; the additions counter goes up by
\* one exactly for an addition Line, the deletions counter by one exactly
\* for a deletion Line.
BodyLineClassification ==
    [][BodyStep =>
         /\ StartsWith(lines[i + 1], "+") => AppendsLine("add")
         /\ StartsWith(lines[i + 1], "-") => AppendsLine("del")
         /\ StartsWith(lines[i + 1], " ") => AppendsLine("ctx")
         /\ StartsWith(lines[i + 1], "\\") => AppendsLine("noeol")
         /\ \A h \in 1..Len(heap) : h # current_hunk => heap'[h] = heap[h]]_vars

\* the value of the last line of section n that starts with prefix p
LastValue(n, p) ==
    LET js == {j \in Section(n) : StartsWith(lines[j], p)}
    IN  DropPrefix(lines[SetMax(js)], Len(p))

\* C5: a file section has status "renamed" if and only if it contains both
\* a "rename from X" line and a "rename to Y" line, and then its old_path is
\* X and its new_path is Y.
RenameNeedsBoth ==
    pc = "done" =>
      \A n \in 1..Len(result[1].files) :
        LET both == /\ \E j \in Section(n) : StartsWith(lines[j], "rename from ")
                    /\ \E j \in Section(n) : StartsWith(lines[j], "rename to ")
        IN  /\ result[1].files[n].status = "renamed" <=> both
            /\ both => /\ result[1].files[n].old_path = LastValue(n, "rename from ")
                       /\ result[1].files[n].new_path = LastValue(n, "rename to ")

\* C6: the scan never raises; every step of it either advances by exactly
\* one line, staying within the input, or is the return after the last
\* line, which yields a DiffResult: the number of lines left decreases at
\* each step until the call returns.
ParseTotal ==
    /\ [](/\ pc \in {"scan", "done"}
          /\ i <= Len(lines)
          /\ pc = "done" => i = Len(lines) /\ result # <<>>)
    /\ [][/\ pc = "scan"
          /\ \/ pc' = "scan" /\ i' = i + 1 /\ i' <= Len(lines)
             \/ pc' = "done" /\ i' = i /\ i = Len(lines) /\ result' # <<>>]_vars

\* a result for an input with a body line outside any file, a file-pair
\* header whose paths do not match, and a header line with a missing value
ParseTotalWitness ==
    /\ pc = "done"
    /\ ~IsFileHeader(lines[1])
    /\ \E j \in 1..Len(lines) : IsFileHeader(lines[j]) /\ DiffGitMatch(lines[j]) = <<>>
    /\ \E j \in 1..Len(lines) : j > 1 /\ lines[j] = "similarity index"
    /\ Len(result[1].files) >= 1

(***************************************************************************)
(* Properties of the server (checked under SpecServer).                    *)
(***************************************************************************)
\* s is the whole result of one collect_all_data run
Complete(s) ==
    /\ Len(s) = Len(CollectKeys)
    /\ \A k \in 1..Len(s) : s[k].key = CollectKeys[k] /\ s[k].run = s[1].run

\* C7: the snapshot a reader can get, and the body of every /api/data
\* response, is the complete result of one collect_all_data run that has
\* finished (the one made at startup or the one of a finished refresh),
\* never a partly built one nor a mix of two runs; and the response is the
\* snapshot that is current.
SnapshotAtomic ==
    /\ Complete(initial_data)
    /\ spc = "collect" => initial_data[1].run < run
    /\ (response # <<>> /\ response.kind = "data") =>
         /\ Complete(response.body)
         /\ response.body = initial_data

\* an /api/data response that carries the snapshot of a refresh during
\* which the repository changed
SnapshotAtomicWitness ==
    /\ response # <<>>
    /\ response.kind = "data"
    /\ response.body[1].run >= 1
    /\ response.body[1].seen # response.body[Len(CollectKeys)].seen

\* collect_all_data is about to raise: its next sub-collection runs git and
\* the executable is not there
CollectRaises ==
    /\ spc = "collect"
    /\ Len(data) < Len(CollectKeys)
    /\ StepUsesGit(Len(data) + 1)
    /\ ~git_present

\* C8: when collect_all_data raises while /api/refresh is served, the
\* request is answered with an error and status 500, the snapshot is left
\* as it was, and the server is back in its loop, ready for the next
\* request.
FailedRefreshKeepsSnapshot ==
    [][(CollectRaises /\ <<handler, spc, data>>' # <<handler, spc, data>>) =>
         /\ response' = Resp(500, "error", <<>>)
         /\ initial_data' = initial_data
         /\ spc' = "idle"
         /\ handler' = <<>>]_vars

\* an /api/data response served after a refresh failed: it carries the
\* snapshot made at startup
FailedRefreshWitness ==
    /\ run >= 1
    /\ spc = "idle"
    /\ response # <<>>
    /\ response.kind = "data"
    /\ response.status = 200
    /\ response.body[1].run = 0

\* C9: the snapshot changes only when an /api/refresh request whose
\* collection has finished replaces it with what it collected and answers
\* 200; no other request and no change of the repository changes it.
SnapshotOnlyByRefresh ==
    [][initial_data' # initial_data =>
         /\ handler # <<>>
         /\ handler[1].path = "/api/refresh"
         /\ spc = "collect"
         /\ Len(data) = Len(CollectKeys)
         /\ initial_data' = data
         /\ response' = Resp(200, "ok", <<>>)]_vars

\* a query has been served after the repository changed, and the snapshot
\* is still the one made at startup
SnapshotOnlyByRefreshWitness ==
    /\ response # <<>>
    /\ response.kind = "query"
    /\ response.status = 200
    /\ repo.rev >= 1
    /\ \A k \in 1..Len(initial_data) : initial_data[k].run = 0 /\ initial_data[k].seen = Repo0

\* C10: no git command the server runs changes the repository.
ServerReadOnly == writes = FALSE

(***************************************************************************)
(* Properties of run_git (checked under SpecRunGit).                       *)
(***************************************************************************)
\* the call has ended, by a return or by an exception
RunGitEnded == rpc \in {"returned", "raised"}

\* git started, ended within the timeout and exited with a non-zero status
ExitedNonZero == proc.launch = "ok" /\ ~proc.hangs /\ proc.code # 0

\* C12 (as stated): when git exits with a non-zero status and the call was
\* made without check, run_git returns the empty string, whatever git wrote
\* to stdout, and does not raise.
NonZeroExitReturnsEmpty ==
    (RunGitEnded /\ ExitedNonZero /\ ~check) => rpc = "returned" /\ returned = <<"">>

\* C12 (amended): when git exits with a non-zero status and the call was
\* made without check, run_git returns what git wrote to stdout before it
\* failed (the empty string when it wrote nothing) and does not raise.
NonZeroExitReturnsStdout ==
    (RunGitEnded /\ ExitedNonZero /\ ~check) =>
        rpc = "returned" /\ returned = <<proc.stdout>>

\* an unchecked call has returned the text git wrote before exiting with 1
NonZeroExitWitness ==
    /\ rpc = "returned"
    /\ ~check
    /\ ExitedNonZero
    /\ proc.stdout # ""
    /\ returned = <<proc.stdout>>

\* C13: a call in which git outlives the timeout returns the empty string
\* and does not raise, with and without check; and run_git raises only
\* when the git executable cannot be located.
TimeoutReturnsEmptyOnlyMissingToolRaises ==
    /\ (RunGitEnded /\ proc.launch = "ok" /\ proc.hangs) =>
          rpc = "returned" /\ returned = <<"">>
    /\ rpc = "raised" => proc.launch = "no_executable"

(***************************************************************************)
(* Properties of the raw-command route and of request scheduling.          *)
(***************************************************************************)
\* the end of the run of non-whitespace characters of s that starts at k
RECURSIVE WordEnd(_, _)
WordEnd(s, k) == IF k <= Len(s) /\ ~IsSpace(Ch(s, k)) THEN WordEnd(s, k + 1) ELSE k

\* the first whitespace-separated token of s, "" if it has none
FirstWord(s) == SubSeq(LStrip(s), 1, WordEnd(LStrip(s), 1) - 1)

\* the handler answers the /api/git request it is serving
GitRouteStep == Routing("/api/git") /\ handler' = <<>>

\* C11: an /api/git request runs git only when the first whitespace-
\* separated token of cmd is in the allow-list, and then runs it once, on
\* the tokens of cmd; for every other cmd, an empty or whitespace-only one
\* included, the answer is an error with status 403, git is not run and
\* the repository is left as it was.
VerbGate ==
    [][GitRouteStep =>
         IF FirstWord(handler[1].a) \in SAFE
         THEN /\ Len(calls') = 1
              /\ calls'[1][1] = FirstWord(handler[1].a)
              /\ response'.status # 403
         ELSE /\ calls' = <<>>
              /\ response' = Resp(403, "error", <<>>)
              /\ repo' = repo]_vars

\* a raw command has been turned down: status 403 and no git call
VerbGateWitness ==
    /\ response # <<>>
    /\ response.status = 403
    /\ calls = <<>>
    /\ spc = "idle"

\* C18: every request is handled on its own worker: no request that has
\* arrived waits for the request being served to finish.
NoRequestWaitsForAnother == ~(handler # <<>> /\ backlog # <<>>)

(***************************************************************************)
(* Further properties of parse_diff (checked under SpecParse).             *)
(***************************************************************************)
\* the hunk headers of section n that match the hunk-header pattern
ValidHeaders(n) == {j \in Section(n) : IsHunkHeader(lines[j])}

\* the input lines of section n that were recorded as a Line of kind t
RecordedAs(n, t) ==
    {j \in Section(n) :
        \E h \in 1..Len(origin) : \E k \in 1..Len(origin[h].body) :
            origin[h].body[k] = j /\ heap[h].lines[k].type = t}

\* C19: in the result no hunk is listed twice: the hunks list of a file has
\* no hunk at two places and no more hunks than its section has valid hunk
\* headers, and the file's additions and deletions are the numbers of
\* input lines of its section recorded as addition and as deletion Lines.
NoHunkTwice ==
    pc = "done" =>
      \A n \in 1..Len(result[1].files) :
        LET f == result[1].files[n]
        IN  /\ \A a, b \in 1..Len(f.hunks) : a # b => f.hunks[a] # f.hunks[b]
            /\ Len(f.hunks) <= Cardinality(ValidHeaders(n))
            /\ f.additions = Cardinality(RecordedAs(n, "add"))
            /\ f.deletions = Cardinality(RecordedAs(n, "del"))

\* a line of a hunk body: it starts with "+", "-", " " or "\"
IsBodyLine(l) == \E c \in {"+", "-", " ", "\\"} : StartsWith(l, c)

\* the body of the hunk whose header is input line j: the body lines that
\* follow it without a break
BodyOf(j) == {n \in (j + 1)..Len(lines) : \A m \in (j + 1)..n : IsBodyLine(lines[m])}

\* the number of lines of the body of header j that start with c
Count(j, c) == Cardinality({n \in BodyOf(j) : StartsWith(lines[n], c)})

\* the body of the hunk header at line j has the line counts the header gives
WellFormedHunk(j) ==
    /\ IsHunkHeader(lines[j])
    /\ Count(j, " ") + Count(j, "-") = NewHunk(HunkMatch(lines[j])[1]).old_count
    /\ Count(j, " ") + Count(j, "+") = NewHunk(HunkMatch(lines[j])[1]).new_count

\* the input is a unified diff: it starts with a file-pair header, and every
\* line is a file-pair header naming both paths, a hunk header whose body
\* has the counts it gives, or a line of such a body
WellFormedDiff ==
    /\ Len(lines) >= 1
    /\ IsFileHeader(lines[1])
    /\ \A j \in 1..Len(lines) :
         \/ IsFileHeader(lines[j]) /\ DiffGitMatch(lines[j]) # <<>>
         \/ WellFormedHunk(j)
         \/ \E k \in 1..(j - 1) : WellFormedHunk(k) /\ j \in BodyOf(k)

\* the number of Lines of kind t of hunk h
Kind(h, t) == Cardinality({k \in 1..Len(heap[h].lines) : heap[h].lines[k].type = t})

\* C20: for a well-formed unified diff every hunk of the result holds
\* exactly the lines of its body, in input order, each less its first
\* character: its context and deletion Lines number old_count, its context
\* and addition Lines new_count; also when an added line begins with "++"
\* or a deleted one with "--".
HunkBodyLossless ==
    (pc = "done" /\ WellFormedDiff) =>
      \A h \in 1..Len(heap) :
        /\ Kind(h, "ctx") + Kind(h, "del") = heap[h].old_count
        /\ Kind(h, "ctx") + Kind(h, "add") = heap[h].new_count
        /\ origin[h].body = [k \in 1..Cardinality(BodyOf(origin[h].hdr)) |-> origin[h].hdr + k]
        /\ \A k \in 1..Len(heap[h].lines) :
             heap[h].lines[k].content = DropPrefix(lines[origin[h].body[k]], 1)

(***************************************************************************)
(* Properties of startup (checked under SpecMain).                         *)
(***************************************************************************)
\* main takes a step (the environment's steps leave mpc and data alone)
MainStep == mpc' # mpc \/ (mpc = "collect_all_data" /\ data' # data)

\* the step main is about to take cannot succeed: git is missing, or the
\* path is not inside a repository, or the next sub-collection raises
StartupFails ==
    \/ mpc = "get_repo_root" /\ (~git_present \/ repo_path # "/repo/sub")
    \/ /\ mpc = "collect_all_data"
       /\ Len(data) < Len(CollectKeys)
       /\ StepUsesGit(Len(data) + 1)
       /\ ~git_present

\* C16: the server is up only after the repository root has been resolved
\* and a complete first snapshot has been collected, which is the snapshot
\* it starts with; when git is missing, or the path is not inside a
\* repository, or the collection raises, main prints an error and exits
\* with status 1; once it has exited it never starts the server and never
\* tries again.
StartupOrdering ==
    /\ [](spc # "down" => /\ mpc = "start_server"
                          /\ repo_root = <<"/repo">>
                          /\ Complete(initial_data))
    /\ [][(spc = "down" /\ spc' # "down") =>
            /\ mpc = "collect_all_data"
            /\ Len(data) = Len(CollectKeys)
            /\ initial_data' = data]_vars
    /\ [][(MainStep /\ StartupFails) =>
            /\ mpc' = "exit"
            /\ exit_status' = <<1>>
            /\ stderr' # ""
            /\ spc' = "down"
            /\ initial_data' = <<>>]_vars
    /\ [][mpc = "exit" => (mpc' = "exit" /\ spc' = "down" /\ exit_status' = <<1>>)]_vars

\* main has exited with status 1 after git went missing during the first
\* collection: the root was resolved, the server was never started
StartupOrderingWitness ==
    /\ mpc = "exit"
    /\ exit_status = <<1>>
    /\ stderr = "Failed to collect git data"
    /\ repo_root = <<"/repo">>
    /\ spc = "down"
    /\ initial_data = <<>>

(***************************************************************************)
(* Properties of _relative_time (checked under SpecRelativeTime).          *)
(***************************************************************************)
UnitNames == <<"minute", "hour", "day", "week", "month", "year">>

\* the length of each unit in seconds: months of 30 days, years of 365
UnitSeconds == <<60, 60 * 60, 24 * 3600, 7 * 86400, 30 * 86400, 365 * 86400>>

\* the text for an age of d whole seconds: "just now" under a minute, else
\* the count of the largest unit that fits into d, with the plural "s"
\* unless the count is 1
Expected(d) ==
    IF d < 60 THEN "just now"
    ELSE LET u == SetMax({k \in 1..6 : UnitSeconds[k] <= d})
             N == d \div UnitSeconds[u]
         IN  ToString(N) \o " " \o UnitNames[u] \o (IF N = 1 THEN "" ELSE "s") \o " ago"

\* C15: for a non-zero timestamp of integer age d, _relative_time returns
\* "just now" when d < 60, else "N minute(s) ago" with N = d div 60 when
\* d < 3600, "N hour(s) ago" with N = d div 3600 when d < 86400, days up
\* to a week, weeks up to 30 days, months of 30 days up to 365 days, years
\* of 365 days from there on; the unit has its "s" exactly when N is not 1.
RelativeTimeBuckets ==
    (relative # <<>> /\ ts # 0) =>
        /\ relative[1] = Expected((now - 2 * ts) \div 2)
        /\ (now - 2 * ts) \div 2 = 30 => relative[1] = "just now"
        /\ (now - 2 * ts) \div 2 = 90 => relative[1] = "1 minute ago"
        /\ (now - 2 * ts) \div 2 = 7200 => relative[1] = "2 hours ago"

\* the call made exactly 30 days after the timestamp: the first month
RelativeTimeBucketsWitness ==
    /\ ts # 0
    /\ now = 2 * (ts + 2592000)
    /\ relative = <<"1 month ago">>

WithoutRelative(c) == [c EXCEPT !.date_relative = ""]

BlameNeverRaises == bpc \in {"scan", "done"}

(***************************************************************************)
(* The commit-line round trip (checked under SpecHistory).                 *)
(***************************************************************************)
\* the text git log prints for the commits cs, newest first
LogOf(cs) == JoinLines([m \in 1..Len(cs) |-> FormatCommit(cs[m])])

\* the number of "|"-separated fields the line really has
FieldCount(line) == Len(SplitBar(line, Len(line)))

\* the record r carries the subject, parents and decorations of the commit c
SameCommit(r, c) ==
    /\ r.subject = c.s
    /\ r.parents = c.P
    /\ r.refs = c.D

\* every line of the log with the eleven fields of the format has a record
NoFullLineSkipped ==
    \A k \in 1..Len(history) :
        Len(history[k].commits) >=
            Cardinality({q \in 1..Len(Splitlines(raw)) : FieldCount(Splitlines(raw)[q]) >= 11})

\* C21: when the log is what git prints for commits of the repository, each
\* call of get_commit_history returns one record per commit, in order, whose
\* subject, parents and ref decorations are the commit's own, also for a
\* commit whose author name or subject holds a "|"; and a line is skipped
\* only when it has fewer fields than the format defines.
CommitLineRoundTrip ==
    /\ NoFullLineSkipped
    /\ \A k \in 1..Len(history) :
         \A cs \in SeqsUpTo(Commits, MaxLogLines) :
             raw \in {LogOf(cs), LogOf(cs) \o "\n"} =>
                 /\ Len(history[k].commits) = Len(cs)
                 /\ \A m \in 1..Len(cs) : SameCommit(history[k].commits[m], cs[m])

====
